---- MODULE Spec2Model ----
(***************************************************************************)
(* Model of the TLS connection-lifecycle state machine of AMQP-CPP's       *)
(* linux_tcp layer: SslHandshake (sslhandshake.h), SslShutdown             *)
(* (sslshutdown.h) and TcpClosed (tcpclosed.h).  One connection, one       *)
(* socket descriptor, one TLS session, driven by a single thread.          *)
(***************************************************************************)
EXTENDS Integers, Sequences, FiniteSets, TLC

\* ------------------------------------------------------------------------
\* Bounds of the model
\* ------------------------------------------------------------------------
NumBytes == 2
MaxInit == 1
MaxChunk == 1
MaxOut == 3
MaxFlushWaits == 2
MaxZero == 2
MaxClosedAborts == 2

\* ------------------------------------------------------------------------
\* Values
\* ------------------------------------------------------------------------
\* the sentinel "no descriptor" stored in _socket
NoSocket == -1
\* the descriptor of the connection, and some other descriptor of the reactor
Fd == 5
OtherFd == 6
\* the descriptors the reactor reports events for: the socket, another
\* descriptor, and the value it was last asked to watch when that is the sentinel
Fds == {Fd, OtherFd, NoSocket}

\* event masks, AMQP::readable and AMQP::writable, as sets of flags
readable == {"readable"}
writable == {"writable"}

Bytes == 1..NumBytes
BoundedSeq(S, n) == UNION {[1..k -> S] : k \in 0..n}

\* the state classes that carry a _socket member (TcpExtState) and TcpClosed
ExtStates == {"Handshake", "Connected", "Shutdown", "TcpShutdown"}
SslStates == {"Handshake", "Connected", "Shutdown"}
OutStates == {"Handshake", "Connected"}

\* results of one SSL_do_handshake call, as classified by SSL_get_error
HandshakeResults == {"success", "want_read", "want_write", "fatal"}
\* final results of SSL_shutdown, after the zero results
ShutdownResults == {"success", "want_read", "want_write", "fatal"}
\* what the onSecured callback does: approve, reject, or destroy the connection
Answers == {"true", "false", "destroy"}

VARIABLES
    cur,        \* the state object installed in the connection ("none": no connection)
    live,       \* the state objects that exist
    socket,     \* _socket of every TcpExtState object
    ssl,        \* _ssl of every object: TRUE when it holds the TLS session
    out,        \* _out of the Handshake and the Connected object
    alive,      \* the connection object exists (Monitor::valid)
    pc,         \* "idle", "flush" (inside a flush loop), "assign", "done"
    ret,        \* the state returned by the last operation
    waits,      \* number of Poll waits of the flush in progress
    log,        \* the calls made by the last operation, in order
    closes,     \* number of ::close calls on the descriptor so far
    secured,    \* number of onSecured calls so far
    call,       \* the last operation and its inputs
    hist,       \* the operations that ran so far
    queued,     \* the initial buffer followed by all bytes passed to send
    closedAborts \* number of abort calls on the Closed state

vars == <<cur, live, socket, ssl, out, alive, pc, ret, waits, log, closes,
          secured, call, hist, queued, closedAborts>>

Ev(e, fd, mask) == [e |-> e, fd |-> fd, mask |-> mask]

\* the objects' memory and the record of effects, as one value
Mem == [live |-> live, socket |-> socket, ssl |-> ssl, out |-> out,
        alive |-> alive, ret |-> ret, log |-> log, closes |-> closes,
        secured |-> secured]

\* the memory at the start of an operation: nothing logged, nothing returned
Fresh == [Mem EXCEPT !.log = <<>>, !.ret = "this"]

\* ------------------------------------------------------------------------
\* Collaborators
\* ------------------------------------------------------------------------
\* _parent->onIdle(this, fd, events)
onIdle(m, fd, events) == [m EXCEPT !.log = Append(@, Ev("onIdle", fd, events))]

\* ::close(fd)
sysclose(m, fd) ==
    [m EXCEPT !.log = Append(@, Ev("close", fd, {})),
              !.closes = IF fd = Fd THEN @ + 1 ELSE @]

\* TcpExtState(TcpExtState *state): the new object takes the descriptor of
\* the previous one
TcpExtState(m, new, old) ==
    [m EXCEPT !.live = @ \cup {new},
              !.socket[new] = m.socket[old],
              !.socket[old] = NoSocket]

\* TcpExtState::cleanup(): stop monitoring and close the descriptor
cleanup(m, k) ==
    IF m.socket[k] < 0 THEN m
    ELSE LET a == onIdle(m, m.socket[k], {})
             b == sysclose(a, m.socket[k])
         IN  [b EXCEPT !.socket[k] = NoSocket]

\* TcpClosed(const TcpState *state)
TcpClosed(m) == [m EXCEPT !.live = @ \cup {"Closed"}, !.ret = "Closed"]

\* ~SslHandshake
DtorSslHandshake(m) ==
    IF m.socket["Handshake"] < 0 THEN m
    ELSE sysclose(m, m.socket["Handshake"])

\* delete of a state object: its destructor runs and the object is gone
destroy(m, k) ==
    LET a == IF k = "Handshake" THEN DtorSslHandshake(m) ELSE m
    IN  [a EXCEPT !.live = @ \ {k}]

\* _parent->onSecured(this, _ssl): the application's decision; it may
\* destroy the connection, and with it the current state object
onSecured(m, answer) ==
    LET a == [m EXCEPT !.log = Append(@, Ev("onSecured", NoSocket, {})),
                       !.secured = @ + 1]
        b == IF answer = "destroy"
             THEN [destroy(a, "Handshake") EXCEPT !.alive = FALSE]
             ELSE a
    IN  [b EXCEPT !.log = Append(@, Ev("onSecuredReturned", NoSocket, {}))]

\* ------------------------------------------------------------------------
\* SslShutdown
\* ------------------------------------------------------------------------
\* variant: the session is copied into the new object, not moved
SslShutdown_copy(m, old) ==
    LET a == TcpExtState(m, "Shutdown", old)
        b == [a EXCEPT !.ssl["Shutdown"] = m.ssl[old]]
    IN  onIdle(b, b.socket["Shutdown"], readable \cup writable)

\* SslShutdown(TcpExtState *state, SslWrapper &&ssl)
SslShutdown(m, old) ==
    LET a == TcpExtState(m, "Shutdown", old)
        b == [a EXCEPT !.ssl["Shutdown"] = m.ssl[old], !.ssl[old] = FALSE]
    IN  onIdle(b, b.socket["Shutdown"], readable \cup writable)

\* TcpShutdown(this)
TcpShutdown(m) ==
    [TcpExtState(m, "TcpShutdown", "Shutdown") EXCEPT !.ret = "TcpShutdown"]

\* SslShutdown::proceed
shutdownProceed(m) == TcpShutdown(m)

\* variant: an error of the shutdown ends in the Closed state
repeat_closed(m, result) ==
    CASE result = "want_read"  ->
            [onIdle(m, m.socket["Shutdown"], readable) EXCEPT !.ret = "this"]
      [] result = "want_write" ->
            [onIdle(m, m.socket["Shutdown"], readable \cup writable) EXCEPT !.ret = "this"]
      [] OTHER                 -> TcpClosed(m)

\* variant: only writability is awaited when the engine wants to write
repeat_writable(m, result) ==
    CASE result = "want_read"  ->
            [onIdle(m, m.socket["Shutdown"], readable) EXCEPT !.ret = "this"]
      [] result = "want_write" ->
            [onIdle(m, m.socket["Shutdown"], writable) EXCEPT !.ret = "this"]
      [] OTHER                 -> shutdownProceed(m)

\* SslShutdown::repeat
repeat(m, result) ==
    CASE result = "want_read"  ->
            [onIdle(m, m.socket["Shutdown"], readable) EXCEPT !.ret = "this"]
      [] result = "want_write" ->
            [onIdle(m, m.socket["Shutdown"], readable \cup writable) EXCEPT !.ret = "this"]
      [] OTHER                 -> shutdownProceed(m)

\* OpenSSL::SSL_shutdown(_ssl), called n times in a row
RECURSIVE SSL_shutdown(_, _)
SSL_shutdown(m, n) ==
    IF n = 0 THEN m
    ELSE SSL_shutdown([m EXCEPT !.log = Append(@, Ev("SSL_shutdown", NoSocket, {}))], n - 1)

\* variant: the reactor is told to wait after every zero result
shutdownProcess_idle(m, fd, zeros, result) ==
    IF fd # m.socket["Shutdown"] THEN [m EXCEPT !.ret = "this"]
    ELSE LET a == SSL_shutdown(m, zeros + 1)
             b == IF zeros > 0
                  THEN onIdle(a, a.socket["Shutdown"], readable \cup writable)
                  ELSE a
         IN  IF result = "success" THEN shutdownProceed(b)
             ELSE repeat(b, result)

\* SslShutdown::process; the engine returns zero `zeros` times, then result
shutdownProcess(m, fd, zeros, result) ==
    IF fd # m.socket["Shutdown"] THEN [m EXCEPT !.ret = "this"]
    ELSE LET a == SSL_shutdown(m, zeros + 1)
         IN  IF result = "success" THEN shutdownProceed(a)
             ELSE repeat(a, result)

\* one iteration of the outer loop of SslShutdown::flush
shutdownFlushStep(m, zeros, result) ==
    LET a == SSL_shutdown(m, zeros + 1)
    IN  CASE result = "success"    -> shutdownProceed(a)
          [] result = "want_read"  ->
                [a EXCEPT !.log = Append(@, Ev("poll", m.socket["Shutdown"], readable)),
                          !.ret = "loop"]
          [] result = "want_write" ->
                [a EXCEPT !.log = Append(@, Ev("poll", m.socket["Shutdown"], readable \cup writable)),
                          !.ret = "loop"]
          [] OTHER                 -> shutdownProceed(a)

\* SslShutdown::abort
shutdownAbort(m) ==
    LET a == cleanup(m, "Shutdown")
    IN  IF a.alive THEN TcpClosed(a) ELSE [a EXCEPT !.ret = "null"]

\* ------------------------------------------------------------------------
\* SslHandshake
\* ------------------------------------------------------------------------
\* SslConnected(this, std::move(_ssl), std::move(_out))
SslConnected(m) ==
    LET a == TcpExtState(m, "Connected", "Handshake")
    IN  [a EXCEPT !.ssl["Connected"] = m.ssl["Handshake"],
                  !.ssl["Handshake"] = FALSE,
                  !.out["Connected"] = m.out["Handshake"],
                  !.out["Handshake"] = <<>>]

\* variant: the descriptor is closed but not forgotten
close_keep(m) ==
    IF m.socket["Handshake"] < 0 THEN m
    ELSE LET a == onIdle(m, m.socket["Handshake"], {})
         IN  sysclose(a, m.socket["Handshake"])

\* SslHandshake::close
close(m) ==
    IF m.socket["Handshake"] < 0 THEN m
    ELSE LET a == onIdle(m, m.socket["Handshake"], {})
             b == sysclose(a, m.socket["Handshake"])
         IN  [b EXCEPT !.socket["Handshake"] = NoSocket]

\* variant: the answer of onSecured is ignored
nextstate_reject(m, answer) ==
    LET a == onSecured(m, answer)
        b == [a EXCEPT !.socket["Handshake"] = NoSocket]
    IN  IF ~a.alive THEN [a EXCEPT !.ret = "null"]
        ELSE [SslShutdown(b, "Handshake") EXCEPT !.ret = "Shutdown"]

\* variant: the monitor is not checked after onSecured
nextstate_nocheck(m, answer) ==
    LET a == onSecured(m, answer)
        b == [a EXCEPT !.socket["Handshake"] = NoSocket]
    IN  IF answer = "false"
        THEN [SslShutdown(b, "Handshake") EXCEPT !.ret = "Shutdown"]
        ELSE [SslConnected(b) EXCEPT !.ret = "Connected"]

\* variant: the test of the answer is inverted
nextstate_invert(m, answer) ==
    LET a == onSecured(m, answer)
        b == [a EXCEPT !.socket["Handshake"] = NoSocket]
    IN  IF ~a.alive THEN [a EXCEPT !.ret = "null"]
        ELSE IF answer = "false"
             THEN [SslConnected(b) EXCEPT !.ret = "Connected"]
             ELSE [SslShutdown(b, "Handshake") EXCEPT !.ret = "Shutdown"]

\* SslHandshake::nextstate
nextstate(m, answer) ==
    LET a == onSecured(m, answer)
        b == [a EXCEPT !.socket["Handshake"] = NoSocket]
    IN  IF ~a.alive THEN [a EXCEPT !.ret = "null"]
        ELSE IF answer = "true"
             THEN [SslConnected(b) EXCEPT !.ret = "Connected"]
             ELSE [SslShutdown(b, "Handshake") EXCEPT !.ret = "Shutdown"]

\* variant: the socket is not closed
reportError_open(m) ==
    IF m.alive THEN TcpClosed(m) ELSE [m EXCEPT !.ret = "null"]

\* SslHandshake::reportError
reportError(m) ==
    LET a == close(m)
    IN  IF a.alive THEN TcpClosed(a) ELSE [a EXCEPT !.ret = "null"]

\* SslHandshake::proceed
proceed(m, events) ==
    [onIdle(m, m.socket["Handshake"], events) EXCEPT !.ret = "this"]

\* OpenSSL::SSL_do_handshake(_ssl)
SSL_do_handshake(m) ==
    [m EXCEPT !.log = Append(@, Ev("SSL_do_handshake", NoSocket, {}))]

\* variant: the masks of the two retryable conditions are exchanged
process_masks(m, fd, result, answer) ==
    IF fd # m.socket["Handshake"] THEN [m EXCEPT !.ret = "this"]
    ELSE LET a == SSL_do_handshake(m)
         IN  CASE result = "success"    -> nextstate(a, answer)
               [] result = "want_read"  -> proceed(a, readable \cup writable)
               [] result = "want_write" -> proceed(a, readable)
               [] OTHER                 -> reportError(a)

\* variant: the descriptor of the event is not compared with the socket
process_anyfd(m, fd, result, answer) ==
    LET a == SSL_do_handshake(m)
    IN  CASE result = "success"    -> nextstate(a, answer)
          [] result = "want_read"  -> proceed(a, readable)
          [] result = "want_write" -> proceed(a, readable \cup writable)
          [] OTHER                 -> reportError(a)

\* SslHandshake::process
process(m, fd, result, answer) ==
    IF fd # m.socket["Handshake"] THEN [m EXCEPT !.ret = "this"]
    ELSE LET a == SSL_do_handshake(m)
         IN  CASE result = "success"    -> nextstate(a, answer)
               [] result = "want_read"  -> proceed(a, readable)
               [] result = "want_write" -> proceed(a, readable \cup writable)
               [] OTHER                 -> reportError(a)

\* variant: the bytes are put in front of the buffer
send_front(m, bytes) == [m EXCEPT !.out["Handshake"] = bytes \o @]

\* SslHandshake::send
send(m, bytes) == [m EXCEPT !.out["Handshake"] = @ \o bytes]

\* variant: onSecured is consulted as soon as the engine wants to write
flushStep_early(m, result, answer) ==
    LET a == SSL_do_handshake(m)
    IN  CASE result = "success"    -> nextstate(a, answer)
          [] result = "want_read"  ->
                [a EXCEPT !.log = Append(@, Ev("poll", m.socket["Handshake"], readable)),
                          !.ret = "loop"]
          [] result = "want_write" ->
                [onSecured(a, "true") EXCEPT
                    !.log = Append(@, Ev("poll", m.socket["Handshake"], readable \cup writable)),
                    !.ret = "loop"]
          [] OTHER                 -> reportError(a)

\* variant: the loop does not wait when the engine wants to read
flushStep_nowait(m, result, answer) ==
    LET a == SSL_do_handshake(m)
    IN  CASE result = "success"    -> nextstate(a, answer)
          [] result = "want_read"  -> [a EXCEPT !.ret = "loop"]
          [] result = "want_write" ->
                [a EXCEPT !.log = Append(@, Ev("poll", m.socket["Handshake"], readable \cup writable)),
                          !.ret = "loop"]
          [] OTHER                 -> reportError(a)

\* one iteration of the loop of SslHandshake::flush
flushStep(m, result, answer) ==
    LET a == SSL_do_handshake(m)
    IN  CASE result = "success"    -> nextstate(a, answer)
          [] result = "want_read"  ->
                [a EXCEPT !.log = Append(@, Ev("poll", m.socket["Handshake"], readable)),
                          !.ret = "loop"]
          [] result = "want_write" ->
                [a EXCEPT !.log = Append(@, Ev("poll", m.socket["Handshake"], readable \cup writable)),
                          !.ret = "loop"]
          [] OTHER                 -> reportError(a)

\* variant: the socket is left to the destructor
abort_noclose(m) ==
    IF m.alive THEN TcpClosed(m) ELSE [m EXCEPT !.ret = "null"]

\* SslHandshake::abort
abort(m) ==
    LET a == close(m)
    IN  IF a.alive THEN TcpClosed(a) ELSE [a EXCEPT !.ret = "null"]

\* SslHandshake(TcpExtState *state, hostname, TcpOutBuffer &&buffer), on the
\* descriptor of the connected socket
SslHandshake(buffer) ==
    [live    |-> {"Handshake"},
     socket  |-> [k \in ExtStates |-> IF k = "Handshake" THEN Fd ELSE NoSocket],
     ssl     |-> [k \in SslStates |-> k = "Handshake"],
     out     |-> [k \in OutStates |-> IF k = "Handshake" THEN buffer ELSE <<>>],
     alive   |-> TRUE,
     ret     |-> "this",
     log     |-> <<Ev("onIdle", Fd, writable)>>,
     closes  |-> 0,
     secured |-> 0]

\* ------------------------------------------------------------------------
\* TcpClosed
\* ------------------------------------------------------------------------
\* variant: a new Closed object is returned
closedAbort_new(m) == TcpClosed(m)

\* TcpClosed::abort
closedAbort(m) == [m EXCEPT !.ret = "this"]

\* ------------------------------------------------------------------------
\* The state machine
\* ------------------------------------------------------------------------
Store(m) ==
    /\ live' = m.live
    /\ socket' = m.socket
    /\ ssl' = m.ssl
    /\ out' = m.out
    /\ alive' = m.alive
    /\ ret' = m.ret
    /\ log' = m.log
    /\ closes' = m.closes
    /\ secured' = m.secured

\* a handshake step of process that has to be retried is remembered with
\* its result
Retried(c) ==
    IF c.on = "Handshake" /\ c.name = "process" /\ c.fd = c.sock0
                          /\ c.result \in {"want_read", "want_write"}
    THEN {<<c.on, c.name, c.result>>}
    ELSE {}

\* the operation returns to TcpConnection: the same state stays, the
\* connection is gone, or a new state is to be installed
Return(m, c) ==
    /\ Store(m)
    /\ call' = c
    /\ hist' = hist \cup {<<c.on, c.name>>} \cup Retried(c)
    /\ pc' = CASE m.ret = "this" -> "idle"
               [] m.ret = "loop" -> "flush"
               [] m.ret = "null" -> "done"
               [] OTHER          -> "assign"
    /\ cur' = IF m.ret = "null" THEN "none" ELSE cur

Call(name, on, fd, result, answer, bytes) ==
    [name |-> name, on |-> on, fd |-> fd, result |-> result,
     answer |-> answer, bytes |-> bytes, zeros |-> 0, sock0 |-> socket[on]]

\* the engine is asked only when the event is for the socket of the state
ResultsOf(results, fd, on) == IF fd = socket[on] THEN results ELSE {"none"}

AnswersOf(result) == IF result = "success" THEN Answers ELSE {"none"}

Init ==
    \E buffer \in BoundedSeq(Bytes, MaxInit) :
        LET m == SslHandshake(buffer) IN
        /\ cur = "Handshake"
        /\ live = m.live
        /\ socket = m.socket
        /\ ssl = m.ssl
        /\ out = m.out
        /\ alive = m.alive
        /\ ret = m.ret
        /\ log = m.log
        /\ closes = m.closes
        /\ secured = m.secured
        /\ pc = "idle"
        /\ waits = 0
        /\ call = [name |-> "construct", on |-> "Handshake", fd |-> Fd,
                   result |-> "none", answer |-> "none", bytes |-> buffer,
                   zeros |-> 0, sock0 |-> Fd]
        /\ hist = {}
        /\ queued = buffer
        /\ closedAborts = 0

HandshakeProcess ==
    /\ pc = "idle" /\ cur = "Handshake"
    /\ \E fd \in Fds :
         \E result \in ResultsOf(HandshakeResults, fd, "Handshake") :
         \E answer \in AnswersOf(result) :
            Return(process(Fresh, fd, result, answer),
                   Call("process", "Handshake", fd, result, answer, <<>>))
    /\ UNCHANGED <<waits, queued, closedAborts>>

HandshakeSend ==
    /\ pc = "idle" /\ cur = "Handshake"
    /\ \E bytes \in BoundedSeq(Bytes, MaxChunk) :
         /\ Len(out["Handshake"]) + Len(bytes) <= MaxOut
         /\ Return(send(Fresh, bytes),
                   Call("send", "Handshake", NoSocket, "none", "none", bytes))
         /\ queued' = queued \o bytes
    /\ UNCHANGED <<waits, closedAborts>>

HandshakeFlushBegin ==
    /\ pc = "idle" /\ cur = "Handshake"
    /\ Return([Fresh EXCEPT !.ret = "loop"],
              Call("flush", "Handshake", NoSocket, "none", "none", <<>>))
    /\ waits' = 0
    /\ UNCHANGED <<queued, closedAborts>>

HandshakeFlushStep ==
    /\ pc = "flush" /\ cur = "Handshake"
    /\ \E result \in HandshakeResults :
         \E answer \in AnswersOf(result) :
            /\ result \in {"want_read", "want_write"} => waits < MaxFlushWaits
            /\ Return(flushStep(Mem, result, answer),
                      Call("flush", "Handshake", NoSocket, result, answer, <<>>))
            /\ waits' = IF result \in {"want_read", "want_write"}
                        THEN waits + 1 ELSE waits
    /\ UNCHANGED <<queued, closedAborts>>

HandshakeAbort ==
    /\ pc = "idle" /\ cur = "Handshake"
    /\ Return(abort(Fresh),
              Call("abort", "Handshake", NoSocket, "none", "none", <<>>))
    /\ UNCHANGED <<waits, queued, closedAborts>>

ShutdownProcess ==
    /\ pc = "idle" /\ cur = "Shutdown"
    /\ \E fd \in Fds :
         \E result \in ResultsOf(ShutdownResults, fd, "Shutdown") :
         \E zeros \in (IF result = "none" THEN {0} ELSE 0..MaxZero) :
         Return(shutdownProcess(Fresh, fd, zeros, result),
                [Call("process", "Shutdown", fd, result, "none", <<>>)
                    EXCEPT !.zeros = zeros])
    /\ UNCHANGED <<waits, queued, closedAborts>>

ShutdownFlushBegin ==
    /\ pc = "idle" /\ cur = "Shutdown"
    /\ Return([Fresh EXCEPT !.ret = "loop"],
              Call("flush", "Shutdown", NoSocket, "none", "none", <<>>))
    /\ waits' = 0
    /\ UNCHANGED <<queued, closedAborts>>

ShutdownFlushStep ==
    /\ pc = "flush" /\ cur = "Shutdown"
    /\ \E zeros \in 0..MaxZero, result \in ShutdownResults :
         /\ result \in {"want_read", "want_write"} => waits < MaxFlushWaits
         /\ Return(shutdownFlushStep(Mem, zeros, result),
                   [Call("flush", "Shutdown", NoSocket, result, "none", <<>>)
                       EXCEPT !.zeros = zeros])
         /\ waits' = IF result \in {"want_read", "want_write"}
                     THEN waits + 1 ELSE waits
    /\ UNCHANGED <<queued, closedAborts>>

ShutdownAbort ==
    /\ pc = "idle" /\ cur = "Shutdown"
    /\ Return(shutdownAbort(Fresh),
              Call("abort", "Shutdown", NoSocket, "none", "none", <<>>))
    /\ UNCHANGED <<waits, queued, closedAborts>>

ClosedAbort ==
    /\ pc = "idle" /\ cur = "Closed"
    /\ closedAborts < MaxClosedAborts
    /\ Store(closedAbort(Fresh))
    /\ call' = [name |-> "abort", on |-> "Closed", fd |-> NoSocket,
                result |-> "none", answer |-> "none", bytes |-> <<>>,
                zeros |-> 0, sock0 |-> NoSocket]
    /\ hist' = hist \cup {<<"Closed", "abort">>}
    /\ closedAborts' = closedAborts + 1
    /\ UNCHANGED <<cur, pc, waits, queued>>

\* TcpConnection installs the returned state and deletes the previous one
Assign ==
    /\ pc = "assign"
    /\ Store([destroy(Fresh, cur) EXCEPT !.ret = ret])
    /\ cur' = ret
    /\ pc' = "idle"
    /\ UNCHANGED <<waits, call, hist, queued, closedAborts>>

\* the application destroys the connection: the current state is deleted
Destroy ==
    /\ pc = "idle" /\ cur # "none"
    /\ Store([destroy(Fresh, cur) EXCEPT !.alive = FALSE, !.ret = "null"])
    /\ cur' = "none"
    /\ pc' = "done"
    /\ call' = [name |-> "destroy", on |-> cur, fd |-> NoSocket,
                result |-> "none", answer |-> "none", bytes |-> <<>>,
                zeros |-> 0, sock0 |-> IF cur \in ExtStates THEN socket[cur] ELSE NoSocket]
    /\ hist' = hist \cup {<<cur, "destroy">>}
    /\ UNCHANGED <<waits, queued, closedAborts>>

Next ==
    \/ HandshakeProcess
    \/ HandshakeSend
    \/ HandshakeFlushBegin
    \/ HandshakeFlushStep
    \/ HandshakeAbort
    \/ ShutdownProcess
    \/ ShutdownFlushBegin
    \/ ShutdownFlushStep
    \/ ShutdownAbort
    \/ ClosedAbort
    \/ Assign
    \/ Destroy

Spec == Init /\ [][Next]_vars

\* ------------------------------------------------------------------------
\* Properties
\* ------------------------------------------------------------------------
OnHandshake(name) == call.on = "Handshake" /\ call.name = name

\* the handshake step of the last process or flush call ran with this result
StepRan(result) ==
    /\ call.on = "Handshake"
    /\ \/ call.name = "process" /\ call.fd = call.sock0
       \/ call.name = "flush"
    /\ call.result = result

\* C1: over all operations and transition paths of one connection the
\* socket descriptor is closed at most once.
C1_ClosedAtMostOnce == closes <= 1

C1_Witness ==
    /\ closes = 1
    /\ cur = "none"
    /\ <<"Handshake", "abort">> \in hist
    /\ <<"Closed", "destroy">> \in hist

\* C2: once all state objects of the connection are destroyed, the
\* descriptor handed to the Handshake state has been closed exactly once.
C2_ClosedExactlyOnce == (cur = "none" /\ live = {}) => closes = 1

\* C3: after the Handshake state transitioned to Connected or Shutdown, the
\* successor holds the descriptor the Handshake state held before, and the
\* Handshake state holds none.
C3_SuccessorHoldsDescriptor ==
    (pc = "assign" /\ call.on = "Handshake" /\ ret \in {"Connected", "Shutdown"})
        => /\ socket[ret] = call.sock0
           /\ socket["Handshake"] = NoSocket

\* C4: the socket descriptor is held by at most one live state object, and
\* so is the TLS session.
C4_SingleOwner ==
    /\ Cardinality({k \in live \cap ExtStates : socket[k] = Fd}) <= 1
    /\ Cardinality({k \in live \cap SslStates : ssl[k]}) <= 1

C4_Witness ==
    /\ pc = "assign"
    /\ live = {"Handshake", "Shutdown"}
    /\ ssl["Shutdown"]
    /\ ~ssl["Handshake"]

\* C5: a Handshake process call whose handshake step succeeds, with the
\* connection still alive afterwards, returns Connected when onSecured
\* answered true and Shutdown when it answered false, never the Handshake
\* state.
C5_SuccessLeavesHandshake ==
    (OnHandshake("process") /\ StepRan("success") /\ alive)
        => /\ ret = (IF call.answer = "true" THEN "Connected" ELSE "Shutdown")
           /\ ret \in live
           /\ pc \in {"assign", "idle"}
           /\ pc = "idle" => (cur = ret /\ "Handshake" \notin live)

C5_Witness ==
    /\ OnHandshake("process") /\ StepRan("success") /\ alive
    /\ call.answer = "false"
    /\ <<"Handshake", "send">> \in hist
    /\ pc = "idle" /\ cur = "Shutdown"

\* C6: a Handshake process call whose handshake step is retryable registers
\* exactly {readable} for "need input" and {readable, writable} for "need
\* to flush output", and returns the same Handshake state, which still owns
\* the open descriptor.
C6_RetryableMask ==
    (OnHandshake("process") /\ call.fd = call.sock0
        /\ call.result \in {"want_read", "want_write"})
        => /\ log = << Ev("SSL_do_handshake", NoSocket, {}),
                       Ev("onIdle", Fd, IF call.result = "want_read"
                                        THEN {"readable"}
                                        ELSE {"readable", "writable"}) >>
           /\ ret = "this" /\ pc = "idle" /\ cur = "Handshake"
           /\ live = {"Handshake"}
           /\ socket["Handshake"] = Fd
           /\ closes = 0

C6_Witness ==
    /\ OnHandshake("process") /\ call.fd = Fd
    /\ call.result = "want_write"
    /\ log[2].mask = {"readable", "writable"}

\* C7: when onSecured destroys the connection, the process or flush call
\* returns no state and does nothing after the callback returned: no write
\* of the descriptor member, no reactor call, no close, no successor.
C7_NoAccessAfterDestroy ==
    (call.on = "Handshake" /\ call.answer = "destroy")
        => /\ ret = "null" /\ pc = "done" /\ cur = "none"
           /\ log[Len(log)] = Ev("onSecuredReturned", NoSocket, {})
           /\ socket["Handshake"] = call.sock0
           /\ live = {}
           /\ \A k \in SslStates \ {"Handshake"} : ~ssl[k]

C7_Witness ==
    /\ call.on = "Handshake" /\ call.name = "flush"
    /\ call.answer = "destroy"
    /\ ~alive
    /\ waits > 0

\* C8: send in the Handshake state makes no socket, TLS or reactor call and
\* appends to the buffer; the buffer handed to Connected is the initial
\* buffer followed by all bytes sent, in call order.
C8_SendBuffered ==
    /\ OnHandshake("send") => (log = <<>> /\ ret = "this" /\ closes = 0)
    /\ "Handshake" \in live /\ cur = "Handshake" /\ pc # "assign"
            => out["Handshake"] = queued
    /\ "Connected" \in live => out["Connected"] = queued

C8_Witness ==
    /\ "Connected" \in live
    /\ Len(out["Connected"]) >= 3
    /\ out["Connected"][1] # out["Connected"][2]
    /\ out["Connected"][2] = out["Connected"][3]

\* C9: abort on the Closed state returns the same Closed object and makes
\* no socket or reactor call, however often it is repeated.
C9_ClosedAbortNoop ==
    (call.on = "Closed" /\ call.name = "abort")
        => /\ ret = "this" /\ cur = "Closed" /\ pc = "idle"
           /\ live = {"Closed"}
           /\ log = <<>>

C9_Witness ==
    /\ call.on = "Closed" /\ call.name = "abort"
    /\ closedAborts >= 2

\* C10: abort on the Handshake state stops the monitoring, closes the
\* descriptor and returns Closed; afterwards the sentinel is in place, so
\* the destructor and any further abort close nothing and call no reactor.
C10_HandshakeAbort ==
    /\ <<"Handshake", "abort">> \in hist
            => (closes = 1 /\ socket["Handshake"] = NoSocket)
    /\ OnHandshake("abort")
            => /\ ret = "Closed" /\ "Closed" \in live
               /\ pc = "assign" => log = << Ev("onIdle", Fd, {}), Ev("close", Fd, {}) >>
               /\ pc = "idle" => (cur = "Closed" /\ log = <<>>)

C10_Witness ==
    /\ <<"Handshake", "abort">> \in hist
    /\ <<"Handshake", "process">> \in hist
    /\ closedAborts >= 1
    /\ closes = 1

\* the shutdown step of the last Shutdown process call ran with this result
ShutdownStepRan(results) ==
    /\ call.on = "Shutdown" /\ call.name = "process"
    /\ call.fd = call.sock0
    /\ call.result \in results

\* the entries of a log made by the call named e
Entries(l, e) == {i \in 1..Len(l) : l[i].e = e}

\* C11: a Shutdown process call whose shutdown step returns "retry now" k
\* times and then success repeats the step k + 1 times inside the call,
\* makes no onIdle call, and returns one transition to TcpShutdown.
C11_ShutdownRetriesInside ==
    ShutdownStepRan({"success"})
        => /\ ret = "TcpShutdown"
           /\ "TcpShutdown" \in live
           /\ pc \in {"assign", "idle"}
           /\ pc = "idle" => cur = "TcpShutdown"
           /\ pc = "assign"
                => /\ Len(log) = call.zeros + 1
                   /\ \A i \in 1..Len(log) : log[i] = Ev("SSL_shutdown", NoSocket, {})
                   /\ live = {"Shutdown", "TcpShutdown"}

C11_Witness ==
    /\ ShutdownStepRan({"success"})
    /\ call.zeros = 2
    /\ pc = "assign"
    /\ Len(log) = 3

\* C12: over all process and flush calls on the Handshake state onSecured is
\* called exactly once, in the call whose handshake step succeeds, and not
\* at all while the steps are retryable or fatal.
C12_SecuredOnce ==
    /\ secured <= 1
    /\ StepRan("success")
            => (secured = 1 /\ (pc # "idle" => Cardinality(Entries(log, "onSecured")) = 1))
    /\ (StepRan("want_read") \/ StepRan("want_write") \/ StepRan("fatal"))
            => (secured = 0 /\ Entries(log, "onSecured") = {})
    /\ (cur = "Handshake" /\ pc \in {"idle", "flush"}) => secured = 0
    /\ (StepRan("want_write") /\ call.name = "process")
            => (ret = "this" /\ log[Len(log)] = Ev("onIdle", Fd, {"readable", "writable"}))

C12_Witness ==
    /\ OnHandshake("process") /\ StepRan("success")
    /\ call.answer = "true"
    /\ <<"Handshake", "process", "want_write">> \in hist
    /\ pc = "assign" /\ ret = "Connected"
    /\ secured = 1

\* C13: when onSecured rejects, the Handshake state goes to Shutdown and
\* hands over the TLS session only: the pending bytes stay in the Handshake
\* object and reach neither the transport nor a successor.
C13_RejectDropsBuffer ==
    /\ (StepRan("success") /\ call.answer = "false")
            => /\ ret = "Shutdown"
               /\ ssl["Shutdown"] /\ ~ssl["Handshake"]
               /\ pc = "assign" => out["Handshake"] = queued
    /\ ssl["Shutdown"] => ("Connected" \notin live /\ out["Connected"] = <<>>)

C13_Witness ==
    /\ StepRan("success") /\ call.answer = "false"
    /\ pc = "assign"
    /\ Len(queued) >= 2
    /\ out["Handshake"] = queued

\* C14: a fatal handshake step in process or flush stops the monitoring,
\* closes the socket and returns Closed; onSecured is not called and no
\* error is reported to the application.
C14_FatalCloses ==
    StepRan("fatal")
        => /\ ret = "Closed" /\ "Closed" \in live
           /\ {"Connected", "Shutdown"} \cap live = {}
           /\ closes = 1 /\ socket["Handshake"] = NoSocket
           /\ secured = 0
           /\ pc \in {"assign", "idle"}
           /\ pc = "idle" => cur = "Closed"
           /\ pc = "assign"
                => /\ Len(log) >= 3
                   /\ log[Len(log) - 1] = Ev("onIdle", Fd, {})
                   /\ log[Len(log)] = Ev("close", Fd, {})
                   /\ \A i \in 1..Len(log) :
                        log[i].e \in {"SSL_do_handshake", "poll", "onIdle", "close"}

C14_Witness ==
    /\ StepRan("fatal") /\ call.name = "flush"
    /\ waits >= 1
    /\ pc = "assign"

\* C15: a Shutdown process call whose final shutdown result is success or a
\* failure other than the two retryable ones returns TcpShutdown; it does
\* not stay in Shutdown and does not go to Closed.
C15_ShutdownErrorProceeds ==
    ShutdownStepRan({"success", "fatal"})
        => /\ ret = "TcpShutdown"
           /\ "TcpShutdown" \in live
           /\ "Closed" \notin live
           /\ pc \in {"assign", "idle"}
           /\ pc = "idle" => (cur = "TcpShutdown" /\ "Shutdown" \notin live)
           /\ pc = "assign" => Entries(log, "onIdle") = {}

C15_Witness ==
    /\ ShutdownStepRan({"fatal"})
    /\ pc = "idle"
    /\ cur = "TcpShutdown"

\* C16: a Shutdown process call whose shutdown step ends retryable makes
\* one onIdle call, with {readable} for "need input" and {readable,
\* writable} for "need to flush output", and returns the same Shutdown
\* state.
C16_ShutdownRetryableMask ==
    ShutdownStepRan({"want_read", "want_write"})
        => /\ ret = "this" /\ pc = "idle" /\ cur = "Shutdown"
           /\ live = {"Shutdown"}
           /\ Len(log) = call.zeros + 2
           /\ Entries(log, "onIdle") = {Len(log)}
           /\ log[Len(log)].mask = (IF call.result = "want_read"
                                    THEN {"readable"}
                                    ELSE {"readable", "writable"})

C16_Witness ==
    /\ ShutdownStepRan({"want_read"})
    /\ call.zeros = 1
    /\ log[3].mask = {"readable"}

\* C17: a process call on the Handshake or the Shutdown state for a
\* descriptor other than the socket of the state changes nothing, calls
\* nothing and returns the same state.
C17_MismatchIgnored ==
    [][ (/\ pc = "idle"
         /\ call'.name = "process"
         /\ call'.fd # call'.sock0)
        => /\ UNCHANGED <<cur, live, socket, ssl, out, alive, pc, closes,
                          secured, queued, waits, closedAborts>>
           /\ log' = <<>>
           /\ ret' = "this" ]_vars

C17_Witness ==
    /\ call.name = "process"
    /\ call.on = "Shutdown"
    /\ call.fd = OtherFd
    /\ call.fd # call.sock0
    /\ <<"Handshake", "process">> \in hist

\* the first n rounds of a flush log: a handshake step, then a wait
Rounds(l, n) ==
    /\ Len(l) >= 2 * n
    /\ \A i \in 1..n :
          /\ l[2 * i - 1] = Ev("SSL_do_handshake", NoSocket, {})
          /\ l[2 * i].e = "poll"
          /\ l[2 * i].fd = Fd
          /\ l[2 * i].mask \in {{"readable"}, {"readable", "writable"}}

\* C18: flush on the Handshake state repeats the handshake step and waits
\* on the poll object after every retryable result; the step that returns
\* success or a fatal result ends the loop, with the successor process
\* returns for that result.
C18_FlushDrains ==
    /\ (pc = "flush" /\ cur = "Handshake")
            => /\ Rounds(log, waits) /\ Len(log) = 2 * waits
               /\ waits > 0 => /\ call.result \in {"want_read", "want_write"}
                               /\ log[Len(log)].mask =
                                     (IF call.result = "want_read"
                                      THEN {"readable"}
                                      ELSE {"readable", "writable"})
               /\ live = {"Handshake"} /\ socket["Handshake"] = Fd
               /\ closes = 0 /\ secured = 0
    /\ (OnHandshake("flush") /\ call.result \in {"success", "fatal"})
            => /\ pc # "flush"
               /\ pc # "idle" => (Rounds(log, waits)
                                    /\ log[2 * waits + 1] = Ev("SSL_do_handshake", NoSocket, {}))
               /\ ret = (CASE call.result = "fatal"     -> "Closed"
                           [] call.answer = "true"      -> "Connected"
                           [] call.answer = "false"     -> "Shutdown"
                           [] OTHER                     -> "null")
               /\ ret # "null" => ret \in live
               /\ call.result = "fatal"
                    => (closes = 1 /\ socket["Handshake"] = NoSocket)

C18_Witness ==
    /\ OnHandshake("flush")
    /\ call.result = "success" /\ call.answer = "true"
    /\ waits = 2
    /\ pc = "assign"
    /\ log[2].mask # log[4].mask

\* C19: abort on the Shutdown state releases the descriptor of the
\* connection and returns Closed.
C19_ShutdownAbortReleases ==
    (call.on = "Shutdown" /\ call.name = "abort")
        => /\ ret = "Closed" /\ "Closed" \in live
           /\ socket["Shutdown"] = NoSocket
           /\ closes = 1

\* C20: every onIdle call of the Handshake and the Shutdown state names the
\* descriptor of the connection while it is open: never the sentinel, never
\* after a close.
C20_IdleOnOpenDescriptor ==
    \A i \in Entries(log, "onIdle") :
        /\ log[i].fd = Fd
        /\ closes = Cardinality({j \in Entries(log, "close") : j > i})

====
